---- MODULE Spec2Model ----
(***************************************************************************)
(* Event consolidation pipeline of fredcy/watcher.                          *)
(*                                                                         *)
(* Two generations of the pipeline are modelled, chosen in Init:           *)
(*   - src/watcher.go: Watchdirs + make_filechan + make_accumulator;       *)
(*   - src/unnamed/part_003: watch + simplify + make_handler + group +     *)
(*     Watchdirs.                                                          *)
(* Spec runs either pipeline against the notifier, free or driven by one   *)
(* of the tests of part_004.  SpecBoth feeds make_accumulator and group    *)
(* the same settled notifications at the same times.                       *)
(*                                                                         *)
(* Time is discrete.  A time.Timer is a countdown `rem` plus the one-slot  *)
(* buffer `c` of its channel C; Reset re-arms the countdown and leaves a   *)
(* value already buffered in C where it is.  Goroutine steps take no time: *)
(* Tick is enabled only when no goroutine can take a step.  A test reads    *)
(* the time since it started from `clock`.                                 *)
(***************************************************************************)
EXTENDS Integers, Sequences, FiniteSets, TLC

\* ---------------------------------------------------------------- bounds
Latency == 2
MaxRaw == 2
MaxSettle == 3
MaxQuitRaw == 1
MaxWatches == 2
\* the stopwatch of a test stops counting here
MaxClock == 3 * Latency

\* ------------------------------------------------------- paths and events
Root == "."
Paths == {"foo", "bar", "blah", "xfoo", "subdir", "subdir/one", "subdir/two"}
FreePaths == {"foo", "xfoo", "subdir"}

Parent(p) == IF p \in {"subdir/one", "subdir/two"} THEN "subdir" ELSE Root

\* opts.Exclude of the tests, `/x[^/]*$`: the last path component starts with x
ExcludeMatch(p) == p \in {"xfoo"}

isdir(p) == p \in {"subdir"}

KindSets == {{"Create"}, {"Modify"}, {"Attrib"}}

IsCreate(ev) == "Create" \in ev.Kinds
\* a slip: the Attrib bit tested along with the Modify bit
IsModifyOrAttrib(ev) == "Modify" \in ev.Kinds \/ "Attrib" \in ev.Kinds

IsModify(ev) == "Modify" \in ev.Kinds

NoEvent == [Name |-> "", Kinds |-> {}]

\* ----------------------------------------------------------------- timers
NewTimer(d) == [rem |-> d, c |-> FALSE]
StopTimer(t) == [t EXCEPT !.rem = -1]
ResetTimer(t, d) == [t EXCEPT !.rem = d]
FireTimer(t) == [rem |-> -1, c |-> TRUE]
DrainTimer(t) == [t EXCEPT !.c = FALSE]
TickTimer(t) == IF t.rem > 0 THEN [t EXCEPT !.rem = t.rem - 1] ELSE t

Min(a, b) == IF a < b THEN a ELSE b

SeqToSet(s) == {s[i] : i \in 1..Len(s)}

\* ------------------------------------------------------------ test scripts
Touch(p) == [op |-> "touch", path |-> p, d |-> 0]
Mkdir(p) == [op |-> "mkdir", path |-> p, d |-> 0]
Sleep(n) == [op |-> "sleep", path |-> "", d |-> n]
Quit == [op |-> "quit", path |-> "", d |-> 0]

TestWatchdirs ==
  << Touch("foo"), Touch("bar"), Sleep(Latency \div 2), Touch("bar"),
     Sleep(3 * Latency), Touch("xfoo"), Touch("blah"), Sleep(3 * Latency),
     Quit >>

TestSubdirs ==
  << Mkdir("subdir"), Sleep(Latency \div 2), Touch("subdir/one"),
     Sleep(3 * Latency), Touch("subdir/two"), Sleep(3 * Latency), Quit >>

TestTouch == << Touch("foo"), Sleep(1), Quit >>

Free == << >>

\* part_003: type Event (Timestamp and Fileinfo are not modelled)
Event(name, mask) == [Filename |-> name, Mask |-> mask, Settled |-> FALSE]
ZeroEvent == Event("", {})


VARIABLES
  \* environment: options, test script position, notifier watch list
  opts, script, tpc, tsleep, clock, notifierClosed, rawLeft, watches, slots,
  lastEv,
  \* src/watcher.go: Watchdirs loop
  wpc, wtarget, filechans,
  \* src/watcher.go: make_filechan goroutines, one per path
  fc_pc, fc_timer, fc_closed,
  \* src/watcher.go: make_accumulator goroutine
  apc, is_changed, filenames, atimer, changedClosed, stdout, commands,
  \* part_003: watch goroutine
  bw_pc, bw_event, eventsClosed,
  \* part_003: simplify goroutine
  s_pc, s_event, s_target, handlers, outClosed,
  \* part_003: make_handler goroutines, one per path
  h_pc, h_timer, h_event, h_closed,
  \* part_003: group goroutine
  g_pc, eventprior, haveprior, gtimer,
  \* part_003: Watchdirs writing to out
  sink, returned,
  \* observers
  sinceRecv, emitCnt, emitAge, sinceSettle, gapAtSettle, flushedSince,
  sameAsPrev, gFlushedSince, gSameAsPrev, arrivals, reportedArrivals

envVars == <<opts, script, tpc, tsleep, clock, notifierClosed, rawLeft,
             watches, slots, lastEv>>
loopVars == <<wpc, wtarget, filechans>>
fcVars == <<fc_pc, fc_timer, fc_closed>>
accVars == <<apc, is_changed, filenames, atimer, changedClosed, stdout,
             commands>>
watchVars == <<bw_pc, bw_event, eventsClosed>>
simpVars == <<s_pc, s_event, s_target, handlers, outClosed>>
hVars == <<h_pc, h_timer, h_event, h_closed>>
grpVars == <<g_pc, eventprior, haveprior, gtimer>>
sinkVars == <<sink, returned>>
unitObs == <<sinceRecv, emitCnt, emitAge>>
batchObs == <<sinceSettle, gapAtSettle, flushedSince, sameAsPrev,
              gFlushedSince, gSameAsPrev>>
orderObs == <<arrivals, reportedArrivals>>
aVars == <<loopVars, fcVars, accVars>>
bVars == <<watchVars, simpVars, hVars, grpVars, sinkVars>>
obsVars == <<unitObs, batchObs, orderObs>>
vars == <<envVars, aVars, bVars, obsVars>>

\* ------------------------------------------------------------ environment
ScriptPending == script # Free /\ tsleep = 0 /\ tpc <= Len(script)

\* os.Create on a new file is reported as Create, on an existing one as Modify
TouchKinds(i) ==
  IF \E j \in 1..(i - 1) : script[j].path = script[i].path
  THEN {"Modify"} ELSE {"Create"}

\* raw events the notifier can deliver now
Offered ==
  IF notifierClosed THEN {}
  ELSE IF script = Free
  THEN IF rawLeft > 0
       THEN {[Name |-> p, Kinds |-> k] :
               p \in {q \in FreePaths : Parent(q) \in watches}, k \in KindSets}
       ELSE {}
  ELSE IF /\ ScriptPending
          /\ script[tpc].op \in {"touch", "mkdir"}
          /\ Parent(script[tpc].path) \in watches
       THEN {[Name |-> script[tpc].path, Kinds |-> TouchKinds(tpc)]}
       ELSE {}

\* the notifier closes watcher.Event under the running loop
NotifierCloses ==
  /\ ~notifierClosed
  /\ wpc \in {"select", "send"} \/ bw_pc \in {"select", "send"}
  /\ notifierClosed' = TRUE
  /\ UNCHANGED <<opts, script, tpc, tsleep, clock, rawLeft, watches, slots,
                 lastEv, aVars, bVars, obsVars>>

\* the test sends quit <- true as its last step; a free environment sends
\* it once its raw events are spent
QuitOffered ==
  IF script = Free THEN rawLeft = 0
  ELSE ScriptPending /\ script[tpc].op = "quit"

Consume ==
  IF script = Free
  THEN rawLeft' = rawLeft - 1 /\ UNCHANGED tpc
  ELSE tpc' = tpc + 1 /\ UNCHANGED rawLeft

TestSleep ==
  /\ ScriptPending
  /\ script[tpc].op = "sleep"
  /\ tsleep' = script[tpc].d
  /\ tpc' = tpc + 1
  /\ UNCHANGED <<opts, script, clock, notifierClosed, rawLeft, watches,
                 slots, lastEv, aVars,
                 bVars, obsVars>>

\* a file touched in a directory that has no watch raises no event
TestUnwatched ==
  /\ ScriptPending
  /\ script[tpc].op \in {"touch", "mkdir"}
  /\ Parent(script[tpc].path) \notin watches
  /\ tpc' = tpc + 1
  /\ UNCHANGED <<opts, script, tsleep, clock, notifierClosed, rawLeft,
                 watches, slots, lastEv,
                 aVars, bVars, obsVars>>

\* watcher.Watch(p): the notifier takes the watch unless it has run out of
\* slots ("too many open files"); the watch set it is left with
Watch(p) == IF p \in watches \/ slots > 0 THEN watches \cup {p} ELSE watches

\* a watch the notifier took in this step used up one of its slots
TakeSlot == slots' = IF watches' = watches THEN slots ELSE slots - 1

\* ------------------------------------------------ observers (no program state)
NoteReceived(p) ==
  /\ sinceRecv' = [sinceRecv EXCEPT ![p] = 0]
  /\ emitCnt' = [emitCnt EXCEPT ![p] = 0]
  /\ UNCHANGED emitAge

NoteEmitted(p) ==
  /\ emitCnt' = [emitCnt EXCEPT ![p] = Min(emitCnt[p] + 1, 2)]
  /\ emitAge' = [emitAge EXCEPT ![p] = sinceRecv[p]]
  /\ UNCHANGED sinceRecv

\* a settled notification reaches the batching stage
NoteSettle ==
  /\ gapAtSettle' = sinceSettle
  /\ sinceSettle' = 0
  /\ sameAsPrev' = ~flushedSince
  /\ flushedSince' = FALSE
  /\ gSameAsPrev' = ~gFlushedSince
  /\ gFlushedSince' = FALSE

\* make_accumulator reports a batch
NoteFlush ==
  /\ flushedSince' = TRUE
  /\ UNCHANGED <<sinceSettle, gapAtSettle, sameAsPrev, gFlushedSince,
                 gSameAsPrev>>

\* group emits a Settled-flagged event
NoteGroupFlush ==
  /\ gFlushedSince' = TRUE
  /\ UNCHANGED <<sinceSettle, gapAtSettle, flushedSince, sameAsPrev,
                 gSameAsPrev>>

\* ------------------------------------------- src/watcher.go: make_filechan
\* a slip: one timer shared by the goroutines of all paths
PingTimerShared(p) ==
  [q \in Paths |-> IF fc_pc[q] = "none" THEN fc_timer[q]
                   ELSE ResetTimer(fc_timer[q], opts.Latency)]

\* timer.Reset(latency) of the goroutine of path p
PingTimer(p) ==
  [fc_timer EXCEPT ![p] = ResetTimer(fc_timer[p], opts.Latency)]

make_filechan(p) ==
  /\ fc_pc' = [fc_pc EXCEPT ![p] = "select"]
  /\ fc_timer' = [fc_timer EXCEPT ![p] = NewTimer(opts.Latency)]
  /\ UNCHANGED fc_closed

\* case _, ok := <-c with ok: the Watchdirs loop is blocked in filechan <- true
FilechanPinged(p) ==
  /\ wpc = "send" /\ wtarget = p
  /\ fc_pc[p] = "select"
  /\ ~fc_closed[p]
  /\ fc_timer' = PingTimer(p)
  /\ wpc' = "select"
  /\ NoteReceived(p)
  /\ UNCHANGED <<envVars, wtarget, filechans, fc_pc, fc_closed, accVars,
                 bVars, batchObs, orderObs>>

\* a slip: the expiry is taken and no notification is sent
FilechanTimerDrop(p) ==
  /\ fc_pc[p] = "select"
  /\ fc_timer[p].c
  /\ fc_timer' = [fc_timer EXCEPT ![p] = DrainTimer(fc_timer[p])]
  /\ UNCHANGED <<envVars, loopVars, fc_pc, fc_closed, accVars, bVars, obsVars>>

\* case <-timer.C: the goroutine goes on to block in changed <- filename
FilechanTimer(p) ==
  /\ fc_pc[p] = "select"
  /\ fc_timer[p].c
  /\ fc_timer' = [fc_timer EXCEPT ![p] = DrainTimer(fc_timer[p])]
  /\ fc_pc' = [fc_pc EXCEPT ![p] = "sending"]
  /\ UNCHANGED <<envVars, loopVars, fc_closed, accVars, bVars, obsVars>>

\* a slip: the goroutine returns without done <- true
FilechanDoneNoAck(p) ==
  /\ fc_pc[p] = "select"
  /\ fc_closed[p]
  /\ fc_pc' = [fc_pc EXCEPT ![p] = "exited"]
  /\ UNCHANGED <<envVars, loopVars, fc_timer, fc_closed, accVars, bVars,
                 obsVars>>

\* case _, ok := <-c with !ok: done <- true is received by the closing loop
FilechanDone(p) ==
  /\ fc_pc[p] = "select"
  /\ fc_closed[p]
  /\ wpc = "waitdone" /\ wtarget = p
  /\ fc_pc' = [fc_pc EXCEPT ![p] = "exited"]
  /\ wpc' = "closing"
  /\ UNCHANGED <<envVars, wtarget, filechans, fc_timer, fc_closed, accVars,
                 bVars, obsVars>>

\* ---------------------------------------- src/watcher.go: make_accumulator
\* a slip: the map is renewed and the list is kept
reset_accumMapOnly ==
  /\ is_changed' = {}
  /\ filenames' = filenames

reset_accum ==
  /\ is_changed' = {}
  /\ filenames' = << >>

\* run_command(filenames, opts.Command): the command line is the command's
\* words followed by the paths; *verbose, *dryrun and the command's own
\* output are not modelled
run_command ==
  commands' = Append(commands, [args |-> filenames, status |-> "running"])

\* report(): one output line per batch (the paths joined by tabs), then the
\* command if there is one; opts.Longform is not modelled
report ==
  /\ stdout' = Append(stdout, filenames)
  /\ IF opts.Command THEN run_command ELSE UNCHANGED commands

\* a slip: the is_changed test left out
AccumulateNoCheck(filename) ==
  /\ is_changed' = is_changed \cup {filename}
  /\ filenames' = Append(filenames, filename)

\* a slip: a path that settles again is moved to the end of the list
AccumulateMove(filename) ==
  /\ is_changed' = is_changed \cup {filename}
  /\ filenames' = Append(SelectSeq(filenames, LAMBDA f : f # filename),
                         filename)

\* if _, present := is_changed[filename]; !present { append }
Accumulate(filename) ==
  /\ is_changed' = is_changed \cup {filename}
  /\ filenames' = IF filename \in is_changed THEN filenames
                  ELSE Append(filenames, filename)

\* a slip: the window timer is armed by the first notification of a batch
\* only
AccumulatorReceiveNoRearm(filename) ==
  /\ apc = "select"
  /\ ~changedClosed
  /\ Accumulate(filename)
  /\ atimer' = IF atimer.rem >= 0 THEN atimer
               ELSE ResetTimer(atimer, opts.Latency)
  /\ UNCHANGED <<apc, changedClosed, stdout, commands>>

\* case filename, ok := <-changed with ok
AccumulatorReceive(filename) ==
  /\ apc = "select"
  /\ ~changedClosed
  /\ Accumulate(filename)
  /\ atimer' = ResetTimer(atimer, opts.Latency)
  /\ UNCHANGED <<apc, changedClosed, stdout, commands>>

\* case <-timer.C: report(), then reset_accum() once run_command has returned
AccumulatorTimerCase ==
  /\ apc = "select"
  /\ atimer.c
  /\ atimer' = DrainTimer(atimer)
  /\ report
  /\ IF opts.Command
     THEN apc' = "command" /\ UNCHANGED <<is_changed, filenames>>
     ELSE apc' = "select" /\ reset_accum
  /\ UNCHANGED changedClosed

\* changed <- filename of a make_filechan goroutine meets the accumulator
FilechanSettled(p) ==
  /\ fc_pc[p] = "sending"
  /\ AccumulatorReceive(p)
  /\ fc_pc' = [fc_pc EXCEPT ![p] = "select"]
  /\ NoteEmitted(p)
  /\ NoteSettle
  /\ arrivals' = Append(arrivals, p)
  /\ UNCHANGED <<envVars, loopVars, fc_timer, fc_closed, bVars,
                 reportedArrivals>>

AccumulatorTimer ==
  /\ AccumulatorTimerCase
  /\ NoteFlush
  /\ reportedArrivals' = arrivals
  /\ arrivals' = IF opts.Command THEN arrivals ELSE << >>
  /\ UNCHANGED <<envVars, loopVars, fcVars, bVars, unitObs>>

\* a slip: a failed command is run again
CommandReturnsRetry ==
  /\ apc = "command"
  /\ \E err \in BOOLEAN :
       /\ commands' =
            IF err
            THEN Append([commands EXCEPT ![Len(commands)].status = "failed"],
                        [args |-> filenames, status |-> "running"])
            ELSE [commands EXCEPT ![Len(commands)].status = "done"]
       /\ IF err /\ Len(commands) < MaxRaw + 2
          THEN UNCHANGED <<apc, is_changed, filenames, arrivals>>
          ELSE apc' = "select" /\ reset_accum /\ arrivals' = << >>
  /\ UNCHANGED <<envVars, loopVars, fcVars, atimer, changedClosed, stdout,
                 bVars, unitObs, batchObs, reportedArrivals>>

\* exec.Command(...).CombinedOutput() returns, with or without an error,
\* which is logged; report() returns and reset_accum() follows
CommandReturns ==
  /\ apc = "command"
  /\ \E err \in BOOLEAN :
       commands' = [commands EXCEPT ![Len(commands)].status =
                                       IF err THEN "failed" ELSE "done"]
  /\ apc' = "select"
  /\ reset_accum
  /\ arrivals' = << >>
  /\ UNCHANGED <<envVars, loopVars, fcVars, atimer, changedClosed, stdout,
                 bVars, unitObs, batchObs, reportedArrivals>>

\* case filename, ok := <-changed with !ok
AccumulatorStop ==
  /\ apc = "select"
  /\ changedClosed
  /\ apc' = "exited"
  /\ UNCHANGED <<envVars, loopVars, fcVars, is_changed, filenames, atimer,
                 changedClosed, stdout, commands, bVars, obsVars>>

\* ----------------------------------------------- src/watcher.go: Watchdirs
\* a slip: the Exclude test left out
ExcludingNever(ev) == FALSE

\* opts.Exclude != nil && opts.Exclude.Match([]byte(ev.Name))
Excluding(ev) == ExcludeMatch(ev.Name)

\* a slip: no watch added for a new directory
AddWatchNever(ev) == watches

\* if opts.Subdirs && isdir(ev.Name) { watcher.Watch(ev.Name) }
AddWatch(ev) ==
  IF opts.Subdirs /\ isdir(ev.Name) THEN Watch(ev.Name) ELSE watches

\* case ev, ok := <-watcher.Event
WatchdirsEvent(ev) ==
  /\ wpc = "select"
  /\ ev \in Offered
  /\ Consume
  /\ lastEv' = ev
  /\ IF (IsCreate(ev) \/ IsModify(ev)) /\ ~Excluding(ev)
     THEN /\ watches' = AddWatch(ev)
          /\ IF ev.Name \in filechans
             THEN /\ wpc' = "send" /\ wtarget' = ev.Name
                  /\ UNCHANGED <<filechans, fcVars, unitObs>>
             ELSE /\ make_filechan(ev.Name)
                  /\ filechans' = filechans \cup {ev.Name}
                  /\ NoteReceived(ev.Name)
                  /\ UNCHANGED <<wpc, wtarget>>
     ELSE UNCHANGED <<watches, loopVars, fcVars, unitObs>>
  /\ TakeSlot
  /\ UNCHANGED <<opts, script, tsleep, clock, notifierClosed, accVars,
                 bVars, batchObs,
                 orderObs>>

\* a slip: the closed channel is taken for a request to stop
WatchdirsEventClosedAsQuit ==
  /\ wpc = "select"
  /\ notifierClosed
  /\ wpc' = "closing"
  /\ UNCHANGED <<envVars, wtarget, filechans, fcVars, accVars, bVars, obsVars>>

\* case ev, ok := <-watcher.Event with !ok: log.Fatal ends the process and
\* with it every goroutine and timer
WatchdirsEventClosed ==
  /\ wpc = "select"
  /\ notifierClosed
  /\ wpc' = "fatal"
  /\ fc_pc' = [p \in Paths |-> IF fc_pc[p] = "none" THEN "none" ELSE "exited"]
  /\ fc_timer' = [p \in Paths |-> StopTimer(NewTimer(0))]
  /\ apc' = "exited"
  /\ atimer' = StopTimer(NewTimer(0))
  /\ UNCHANGED <<envVars, wtarget, filechans, fc_closed, is_changed, filenames,
                 changedClosed, stdout, commands, bVars, obsVars>>

\* case <-quit
WatchdirsQuit ==
  /\ wpc = "select"
  /\ QuitOffered
  /\ wpc' = "closing"
  /\ IF script = Free THEN UNCHANGED tpc ELSE tpc' = tpc + 1
  /\ UNCHANGED <<opts, script, tsleep, clock, notifierClosed, rawLeft,
                 watches, slots, lastEv,
                 wtarget,
                 filechans, fcVars, accVars, bVars, obsVars>>

\* for filename := range filechans { close(filechans[filename]); <-done }
WatchdirsClose(p) ==
  /\ wpc = "closing"
  /\ p \in filechans
  /\ ~fc_closed[p]
  /\ fc_closed' = [fc_closed EXCEPT ![p] = TRUE]
  /\ wpc' = "waitdone" /\ wtarget' = p
  /\ UNCHANGED <<envVars, filechans, fc_pc, fc_timer, accVars, bVars,
                 obsVars>>

\* a slip: close(changed) without waiting for the goroutines
WatchdirsReturnEarly ==
  /\ wpc = "closing"
  /\ changedClosed' = TRUE
  /\ wpc' = "returned"
  /\ UNCHANGED <<envVars, wtarget, filechans, fcVars, apc, is_changed,
                 filenames, atimer, stdout, commands, bVars, obsVars>>

\* close(changed); active = false; watcher.Close()
WatchdirsReturn ==
  /\ wpc = "closing"
  /\ \A p \in filechans : fc_closed[p]
  /\ changedClosed' = TRUE
  /\ wpc' = "returned"
  /\ UNCHANGED <<envVars, wtarget, filechans, fcVars, apc, is_changed,
                 filenames, atimer, stdout, commands, bVars, obsVars>>

\* the runtime delivers an expired timer to its channel C
FireFilechanTimer(p) ==
  /\ fc_timer[p].rem = 0
  /\ fc_timer' = [fc_timer EXCEPT ![p] = FireTimer(fc_timer[p])]
  /\ UNCHANGED <<envVars, loopVars, fc_pc, fc_closed, accVars, bVars,
                 obsVars>>

FireAccumulatorTimer ==
  /\ atimer.rem = 0
  /\ atimer' = FireTimer(atimer)
  /\ UNCHANGED <<envVars, loopVars, fcVars, apc, is_changed, filenames,
                 changedClosed, stdout, commands, bVars, obsVars>>

\* some goroutine of src/watcher.go can take a step without time passing
UrgentA ==
  \/ \E p \in Paths : fc_timer[p].rem = 0
  \/ atimer.rem = 0
  \/ \E p \in Paths : fc_pc[p] = "select" /\ fc_timer[p].c
  \/ \E p \in Paths : fc_pc[p] = "select" /\ fc_closed[p] /\ wpc = "waitdone"
  \/ wpc = "send" /\ fc_pc[wtarget] = "select"
  \/ \E p \in Paths : fc_pc[p] = "sending" /\ apc = "select" /\ ~changedClosed
  \/ apc = "select" /\ (atimer.c \/ changedClosed)
  \/ wpc = "closing"
  \/ wpc = "select" /\ notifierClosed

\* ------------------------------------------------------------- part_000
\* The oldest pipeline: make_accumulator returns a function, which the
\* goroutine of every make_filechan calls from its timer case, and keeps a
\* goroutine of its own for the window timer.  The statements of the function
\* and of the timer case are steps of the goroutine that runs them.  The loop
\* of Watchdirs never ends: its case <-done only breaks out of the select.

\* make_filechan(filename, latency, handler): the timer is made and stopped
old_make_filechan(p) ==
  /\ fc_pc' = [fc_pc EXCEPT ![p] = "select"]
  /\ fc_timer' = [fc_timer EXCEPT ![p] = StopTimer(NewTimer(1))]
  /\ UNCHANGED fc_closed

\* case ev := <-watcher.Event: the unit is made if missing, then pinged
OldWatchdirsEvent(ev) ==
  /\ wpc = "select"
  /\ ev \in Offered
  /\ Consume
  /\ lastEv' = ev
  /\ IF (IsCreate(ev) \/ IsModify(ev)) /\ ~Excluding(ev)
     THEN /\ IF ev.Name \in filechans
             THEN UNCHANGED <<filechans, fcVars>>
             ELSE /\ old_make_filechan(ev.Name)
                  /\ filechans' = filechans \cup {ev.Name}
          /\ wpc' = "send" /\ wtarget' = ev.Name
     ELSE UNCHANGED <<loopVars, fcVars>>
  /\ UNCHANGED <<opts, script, tsleep, clock, notifierClosed, watches, slots,
                 accVars, bVars, obsVars>>

\* case <-timer.C: handler(filename) is entered
OldFilechanTimer(p) ==
  /\ fc_pc[p] = "select"
  /\ fc_timer[p].c
  /\ fc_timer' = [fc_timer EXCEPT ![p] = DrainTimer(fc_timer[p])]
  /\ fc_pc' = [fc_pc EXCEPT ![p] = "lookup"]
  /\ UNCHANGED <<envVars, loopVars, fc_closed, accVars, bVars, obsVars>>

\* _, ok := is_changed[filename], in the goroutine of p
HandlerLookup(p) ==
  /\ fc_pc[p] = "lookup"
  /\ fc_pc' = [fc_pc EXCEPT ![p] = IF p \in is_changed THEN "reset"
                                   ELSE "append"]
  /\ UNCHANGED <<envVars, loopVars, fc_timer, fc_closed, accVars, bVars,
                 obsVars>>

\* is_changed[filename] = true; filenames = append(filenames, filename)
HandlerAppend(p) ==
  /\ fc_pc[p] = "append"
  /\ is_changed' = is_changed \cup {p}
  /\ filenames' = Append(filenames, p)
  /\ fc_pc' = [fc_pc EXCEPT ![p] = "reset"]
  /\ UNCHANGED <<envVars, loopVars, fc_timer, fc_closed, apc, atimer,
                 changedClosed, stdout, commands, bVars, obsVars>>

\* timer.Reset(latency) on the accumulator's timer; handler returns
HandlerReset(p) ==
  /\ fc_pc[p] = "reset"
  /\ atimer' = ResetTimer(atimer, opts.Latency)
  /\ fc_pc' = [fc_pc EXCEPT ![p] = "select"]
  /\ NoteEmitted(p)
  /\ NoteSettle
  /\ arrivals' = Append(arrivals, p)
  /\ UNCHANGED <<envVars, loopVars, fc_timer, fc_closed, apc, is_changed,
                 filenames, changedClosed, stdout, commands, bVars,
                 reportedArrivals>>

\* case <-timer.C of the accumulator's goroutine: the list is printed and
\* handed to handle()
OldAccumulatorPrint ==
  /\ apc = "select"
  /\ atimer.c
  /\ atimer' = DrainTimer(atimer)
  /\ report
  /\ apc' = "report"
  /\ NoteFlush
  /\ reportedArrivals' = arrivals
  /\ UNCHANGED <<envVars, loopVars, fcVars, is_changed, filenames,
                 changedClosed, bVars, unitObs, arrivals>>

\* handle() has returned: is_changed = make(...); filenames = make(...)
OldAccumulatorReset ==
  /\ apc = "report"
  /\ commands' = IF opts.Command
                 THEN [commands EXCEPT ![Len(commands)].status = "done"]
                 ELSE commands
  /\ reset_accum
  /\ apc' = "select"
  /\ arrivals' = << >>
  /\ UNCHANGED <<envVars, loopVars, fcVars, atimer, changedClosed, stdout,
                 bVars, unitObs, batchObs, reportedArrivals>>

\* some goroutine of part_000 is inside the function or the timer case
UrgentOld ==
  \/ \E p \in Paths : fc_pc[p] \in {"lookup", "append", "reset"}
  \/ apc = "report"

\* ------------------------------------------------- part_003: Watchdirs sink
\* fmt.Fprint(out, event.Filename) followed by "\n" if Settled, else "\t"
WriteGrouped(event) ==
  sink' = Append(sink, [text |-> event.Filename,
                        end |-> IF event.Settled THEN "\n" ELSE "\t"])

\* fmt.Fprintln(out, event.Filename); opts.Longform is not modelled
WriteLine(event) ==
  sink' = Append(sink, [text |-> event.Filename, end |-> "\n"])

\* ------------------------------------------------------- part_003: group
\* case event, ok := <-events with ok; the prior event goes to the sink
GroupInput(event) ==
  /\ g_pc = "select"
  /\ IF haveprior THEN WriteGrouped(eventprior) ELSE UNCHANGED sink
  /\ eventprior' = event
  /\ haveprior' = TRUE
  /\ gtimer' = ResetTimer(gtimer, opts.Latency)
  /\ UNCHANGED <<g_pc, returned>>

\* case <-timer.C
GroupTimerCase ==
  /\ g_pc = "select"
  /\ gtimer.c
  /\ gtimer' = DrainTimer(gtimer)
  /\ eventprior' = [eventprior EXCEPT !.Settled = TRUE]
  /\ WriteGrouped(eventprior')
  /\ haveprior' = FALSE
  /\ UNCHANGED <<g_pc, returned>>

GroupTimer ==
  /\ GroupTimerCase
  /\ NoteGroupFlush
  /\ UNCHANGED <<envVars, aVars, watchVars, simpVars, hVars, unitObs,
                 orderObs>>

\* case event, ok := <-events with !ok: close(out) ends the loop of Watchdirs
GroupStop ==
  /\ g_pc = "select"
  /\ IF opts.Latency # 0 THEN outClosed ELSE eventsClosed
  /\ g_pc' = "exited"
  /\ returned' = TRUE
  /\ UNCHANGED <<envVars, aVars, watchVars, simpVars, hVars, eventprior,
                 haveprior, gtimer, sink, obsVars>>

FireGroupTimer ==
  /\ gtimer.rem = 0
  /\ gtimer' = FireTimer(gtimer)
  /\ UNCHANGED <<envVars, aVars, watchVars, simpVars, hVars, g_pc, eventprior,
                 haveprior, sinkVars, obsVars>>

\* the stage that reads what simplify (or, with Latency = 0, watch) sends
Downstream(event) ==
  IF opts.Group
  THEN GroupInput(event)
  ELSE /\ ~returned
       /\ WriteLine(event)
       /\ UNCHANGED <<grpVars, returned>>

\* ------------------------------------------------ part_003: make_handler
\* timer.Reset(latency) of the goroutine of path p
HandlerPingTimer(p) ==
  [h_timer EXCEPT ![p] = ResetTimer(h_timer[p], opts.Latency)]

make_handler(p) ==
  /\ h_pc' = [h_pc EXCEPT ![p] = "select"]
  /\ h_timer' = [h_timer EXCEPT ![p] = NewTimer(opts.Latency)]
  /\ UNCHANGED <<h_event, h_closed>>

\* case event, ok = <-input with ok: simplify is blocked in handler <- event
HandlerReceive(p) ==
  /\ s_pc = "send" /\ s_event.Filename = p
  /\ h_pc[p] = "select"
  /\ ~h_closed[p]
  /\ h_event' = [h_event EXCEPT ![p] = s_event]
  /\ h_timer' = HandlerPingTimer(p)
  /\ s_pc' = "range"
  /\ NoteReceived(p)
  /\ UNCHANGED <<envVars, aVars, watchVars, s_event, s_target, handlers,
                 outClosed, h_pc, h_closed, grpVars, sinkVars, batchObs,
                 orderObs>>

\* case <-timer.C: the goroutine goes on to block in out <- event
HandlerTimer(p) ==
  /\ h_pc[p] = "select"
  /\ h_timer[p].c
  /\ h_timer' = [h_timer EXCEPT ![p] = DrainTimer(h_timer[p])]
  /\ h_pc' = [h_pc EXCEPT ![p] = "sending"]
  /\ UNCHANGED <<envVars, aVars, watchVars, simpVars, h_event, h_closed,
                 grpVars, sinkVars, obsVars>>

\* out <- event is received downstream
HandlerSettled(p) ==
  /\ h_pc[p] = "sending"
  /\ Downstream(h_event[p])
  /\ h_pc' = [h_pc EXCEPT ![p] = "select"]
  /\ NoteEmitted(p)
  /\ NoteSettle
  /\ UNCHANGED <<envVars, aVars, watchVars, simpVars, h_timer, h_event,
                 h_closed, orderObs>>

\* case event, ok = <-input with !ok: done <- true is received by simplify
HandlerDone(p) ==
  /\ h_pc[p] = "select"
  /\ h_closed[p]
  /\ s_pc = "waitdone" /\ s_target = p
  /\ h_pc' = [h_pc EXCEPT ![p] = "exited"]
  /\ s_pc' = "closing"
  /\ UNCHANGED <<envVars, aVars, watchVars, s_event, s_target, handlers,
                 outClosed, h_timer, h_event, h_closed, grpVars, sinkVars,
                 obsVars>>

FireHandlerTimer(p) ==
  /\ h_timer[p].rem = 0
  /\ h_timer' = [h_timer EXCEPT ![p] = FireTimer(h_timer[p])]
  /\ UNCHANGED <<envVars, aVars, watchVars, simpVars, h_pc, h_event, h_closed,
                 grpVars, sinkVars, obsVars>>

\* ---------------------------------------------------- part_003: simplify
\* a slip: a handler is made for every event, found in the map or not
SimplifyReceiveNoLookup ==
  /\ opts.Latency # 0
  /\ bw_pc = "send"
  /\ s_pc = "range"
  /\ make_handler(bw_event.Filename)
  /\ handlers' = handlers \cup {bw_event.Filename}
  /\ s_event' = bw_event
  /\ s_pc' = "send"
  /\ bw_pc' = "select"
  /\ UNCHANGED <<envVars, aVars, bw_event, eventsClosed, s_target, outClosed,
                 grpVars, sinkVars, obsVars>>

\* for event := range events: look up or make the handler, then block in
\* handler <- event
SimplifyReceive ==
  /\ opts.Latency # 0
  /\ bw_pc = "send"
  /\ s_pc = "range"
  /\ IF bw_event.Filename \in handlers
     THEN UNCHANGED <<handlers, hVars>>
     ELSE /\ make_handler(bw_event.Filename)
          /\ handlers' = handlers \cup {bw_event.Filename}
  /\ s_event' = bw_event
  /\ s_pc' = "send"
  /\ bw_pc' = "select"
  /\ UNCHANGED <<envVars, aVars, bw_event, eventsClosed, s_target, outClosed,
                 grpVars, sinkVars, obsVars>>

\* the range loop ends when watch has closed events
SimplifyRangeEnd ==
  /\ s_pc = "range"
  /\ eventsClosed
  /\ s_pc' = "closing"
  /\ UNCHANGED <<envVars, aVars, watchVars, s_event, s_target, handlers,
                 outClosed, hVars, grpVars, sinkVars, obsVars>>

\* for filename := range handlers { close(handlers[filename]); <-done }
SimplifyClose(p) ==
  /\ s_pc = "closing"
  /\ p \in handlers
  /\ ~h_closed[p]
  /\ h_closed' = [h_closed EXCEPT ![p] = TRUE]
  /\ s_pc' = "waitdone" /\ s_target' = p
  /\ UNCHANGED <<envVars, aVars, watchVars, s_event, handlers, outClosed,
                 h_pc, h_timer, h_event, grpVars, sinkVars, obsVars>>

\* close(out)
SimplifyReturn ==
  /\ s_pc = "closing"
  /\ \A p \in handlers : h_closed[p]
  /\ outClosed' = TRUE
  /\ s_pc' = "exited"
  /\ UNCHANGED <<envVars, aVars, watchVars, s_event, s_target, handlers,
                 hVars, grpVars, sinkVars, obsVars>>

\* ------------------------------------------------------- part_003: watch
\* opts.Exclude != nil && opts.Exclude.MatchString(ev.Name)
WatchExcluding(ev) == ExcludeMatch(ev.Name)

\* if opts.Subdirs && ev.IsCreate() && isdir(ev.Name) { watcher.Watch(ev.Name) }
WatchAddWatch(ev) ==
  IF opts.Subdirs /\ IsCreate(ev) /\ isdir(ev.Name)
  THEN Watch(ev.Name) ELSE watches

\* case ev, ok := <-watcher.Event: the goroutine goes on to block in
\* events <- event unless the path is excluded
WatchEvent(ev) ==
  /\ bw_pc = "select"
  /\ ev \in Offered
  /\ Consume
  /\ lastEv' = ev
  /\ IF WatchExcluding(ev)
     THEN UNCHANGED <<watches, bw_pc, bw_event>>
     ELSE /\ watches' = WatchAddWatch(ev)
          /\ bw_event' = Event(ev.Name, ev.Kinds)
          /\ bw_pc' = "send"
  /\ TakeSlot
  /\ UNCHANGED <<opts, script, tsleep, clock, notifierClosed, aVars,
                 eventsClosed, simpVars,
                 hVars,
                 grpVars, sinkVars, obsVars>>

\* with Latency = 0 there is no simplify: events <- event goes downstream
WatchDirect ==
  /\ opts.Latency = 0
  /\ bw_pc = "send"
  /\ Downstream(bw_event)
  /\ bw_pc' = "select"
  /\ IF opts.Group THEN NoteSettle ELSE UNCHANGED batchObs
  /\ UNCHANGED <<envVars, aVars, bw_event, eventsClosed, simpVars, hVars,
                 unitObs, orderObs>>

\* case ev, ok := <-watcher.Event with !ok: log.Panic in the goroutine ends
\* the process and with it every goroutine and timer
WatchEventClosed ==
  /\ bw_pc = "select"
  /\ notifierClosed
  /\ bw_pc' = "fatal"
  /\ s_pc' = IF s_pc = "off" THEN "off" ELSE "exited"
  /\ h_pc' = [p \in Paths |-> IF h_pc[p] = "none" THEN "none" ELSE "exited"]
  /\ h_timer' = [p \in Paths |-> StopTimer(NewTimer(0))]
  /\ g_pc' = IF g_pc = "off" THEN "off" ELSE "exited"
  /\ gtimer' = StopTimer(NewTimer(0))
  /\ UNCHANGED <<envVars, aVars, bw_event, eventsClosed, s_event, s_target,
                 handlers, outClosed, h_event, h_closed, eventprior, haveprior,
                 sinkVars, obsVars>>

\* case <-quit: active = false; watcher.Close(); close(events)
WatchQuit ==
  /\ bw_pc = "select"
  /\ QuitOffered
  /\ bw_pc' = "closed"
  /\ eventsClosed' = TRUE
  /\ IF script = Free THEN UNCHANGED tpc ELSE tpc' = tpc + 1
  /\ UNCHANGED <<opts, script, tsleep, clock, notifierClosed, rawLeft,
                 watches, slots, lastEv,
                 aVars, bw_event, simpVars, hVars, grpVars, sinkVars, obsVars>>

\* for event := range events of Watchdirs ends when its input is closed
WatchdirsRangeEnd ==
  /\ ~opts.Group
  /\ ~returned
  /\ IF opts.Latency # 0 THEN outClosed ELSE eventsClosed
  /\ returned' = TRUE
  /\ UNCHANGED <<envVars, aVars, watchVars, simpVars, hVars, grpVars, sink,
                 obsVars>>

\* some goroutine of part_003 can take a step without time passing
UrgentB ==
  \/ \E p \in Paths : h_timer[p].rem = 0
  \/ gtimer.rem = 0
  \/ bw_pc = "send"
  \/ s_pc \in {"send", "closing"}
  \/ s_pc = "range" /\ eventsClosed
  \/ \E p \in Paths : h_pc[p] = "sending"
  \/ \E p \in Paths : h_pc[p] = "select" /\ h_timer[p].c
  \/ \E p \in Paths : h_pc[p] = "select" /\ h_closed[p]
  \/ g_pc = "select" /\ gtimer.c
  \/ g_pc = "select" /\ (IF opts.Latency # 0 THEN outClosed ELSE eventsClosed)
  \/ bw_pc # "off" /\ ~opts.Group /\ ~returned
       /\ (IF opts.Latency # 0 THEN outClosed ELSE eventsClosed)
  \/ bw_pc = "select" /\ notifierClosed

\* ------------------------------------- make_accumulator and group, side by side
\* one settled notification is handed to both batching stages at once
BothPaths == {"foo", "bar"}

BothSettle(p) ==
  /\ wpc = "off" /\ bw_pc = "off"
  /\ rawLeft > 0
  /\ rawLeft' = rawLeft - 1
  /\ AccumulatorReceive(p)
  /\ GroupInput(Event(p, {"Modify"}))
  /\ NoteSettle
  /\ arrivals' = Append(arrivals, p)
  /\ UNCHANGED <<opts, script, tpc, tsleep, clock, notifierClosed,
                 watches, slots, lastEv,
                 loopVars,
                 fcVars,
                 watchVars, simpVars, hVars, unitObs, reportedArrivals>>

\* ------------------------------------------------------------------- time
Urgent == ScriptPending \/ UrgentA \/ UrgentB \/ UrgentOld

Age(n, cap) == IF n < 0 THEN n ELSE Min(n + 1, cap)

\* one unit of time passes: sleeps, timers and observers' ages move on
Elapse ==
  /\ tsleep' = IF tsleep > 0 THEN tsleep - 1 ELSE 0
  /\ clock' = IF script = Free THEN clock ELSE Min(clock + 1, MaxClock)
  /\ fc_timer' = [p \in Paths |-> TickTimer(fc_timer[p])]
  /\ atimer' = TickTimer(atimer)
  /\ h_timer' = [p \in Paths |-> TickTimer(h_timer[p])]
  /\ gtimer' = TickTimer(gtimer)
  /\ sinceRecv' = [p \in Paths |-> Age(sinceRecv[p], Latency)]
  /\ sinceSettle' = Age(sinceSettle, Latency + 1)
  /\ UNCHANGED <<opts, script, tpc, rawLeft, watches, slots, lastEv,
                 notifierClosed, loopVars, fc_pc,
                 fc_closed, apc, is_changed, filenames, changedClosed, stdout,
                 commands,
                 watchVars, simpVars, h_pc, h_event, h_closed, g_pc,
                 eventprior, haveprior, sinkVars, emitCnt, emitAge,
                 gapAtSettle, flushedSince, sameAsPrev, gFlushedSince,
                 gSameAsPrev, orderObs>>

\* time passes when no goroutine can take a step
Tick == ~Urgent /\ Elapse

\* the scheduler leaves a goroutine that can take a step waiting for one unit
\* of time
Stall == Urgent /\ Elapse

\* ---------------------------------------------------------- specification
\* the notifier accepts limit watches; the watch on Root has been taken
InitEnv(budget, limit) ==
  /\ tpc = 1
  /\ tsleep = 0
  /\ clock = 0
  /\ notifierClosed = FALSE
  /\ rawLeft = IF script = Free THEN budget ELSE 0
  /\ watches = {Root}
  /\ slots = limit - 1
  /\ lastEv = NoEvent

InitObs ==
  /\ sinceRecv = [p \in Paths |-> -1]
  /\ emitCnt = [p \in Paths |-> 0]
  /\ emitAge = [p \in Paths |-> -1]
  /\ sinceSettle = -1
  /\ flushedSince = FALSE
  /\ gapAtSettle = -1
  /\ sameAsPrev = FALSE
  /\ gFlushedSince = FALSE
  /\ gSameAsPrev = FALSE
  /\ arrivals = << >>
  /\ reportedArrivals = << >>

\* src/watcher.go: state after make_accumulator and before the first event
InitPipelineA(pc) ==
  /\ wpc = pc
  /\ wtarget = ""
  /\ filechans = {}
  /\ fc_pc = [p \in Paths |-> "none"]
  /\ fc_timer = [p \in Paths |-> StopTimer(NewTimer(0))]
  /\ fc_closed = [p \in Paths |-> FALSE]

InitAccumulator(on) ==
  /\ apc = IF on THEN "select" ELSE "off"
  /\ is_changed = {}
  /\ filenames = << >>
  /\ atimer = StopTimer(NewTimer(1))
  /\ changedClosed = FALSE
  /\ stdout = << >>
  /\ commands = << >>

\* part_003: state after watch, simplify and group have started
InitPipelineB(pc) ==
  /\ bw_pc = pc
  /\ bw_event = ZeroEvent
  /\ eventsClosed = FALSE
  /\ s_pc = IF pc = "select" /\ opts.Latency # 0 THEN "range" ELSE "off"
  /\ s_event = ZeroEvent
  /\ s_target = ""
  /\ handlers = {}
  /\ outClosed = FALSE
  /\ h_pc = [p \in Paths |-> "none"]
  /\ h_timer = [p \in Paths |-> StopTimer(NewTimer(0))]
  /\ h_event = [p \in Paths |-> ZeroEvent]
  /\ h_closed = [p \in Paths |-> FALSE]
  /\ returned = FALSE

InitGroup(on) ==
  /\ g_pc = IF on THEN "select" ELSE "off"
  /\ eventprior = ZeroEvent
  /\ haveprior = FALSE
  /\ gtimer = StopTimer(NewTimer(opts.Latency))
  /\ sink = << >>

\* src/watcher.go started by a test or by main, budget raw events to come
InitFromA(budget, limit) ==
  /\ script \in {Free, TestWatchdirs, TestSubdirs}
  /\ opts \in [Latency : {Latency}, Command : BOOLEAN, Subdirs : BOOLEAN,
               Group : {FALSE}]
  /\ script # Free => ~opts.Command
  /\ InitEnv(budget, limit) /\ InitObs
  /\ InitPipelineA("select") /\ InitAccumulator(TRUE)
  /\ InitPipelineB("off") /\ InitGroup(FALSE)

InitA == InitFromA(MaxRaw, MaxWatches)

\* part_003 started by a test or by main, budget raw events to come
InitFromB(budget, limit) ==
  /\ script \in {Free, TestWatchdirs, TestSubdirs, TestTouch}
  /\ opts \in [Latency : {0, Latency}, Command : {FALSE}, Subdirs : BOOLEAN,
               Group : BOOLEAN]
  /\ InitEnv(budget, limit) /\ InitObs
  /\ InitPipelineA("off") /\ InitAccumulator(FALSE)
  /\ InitPipelineB("select") /\ InitGroup(opts.Group)

InitB == InitFromB(MaxRaw, MaxWatches)

InitBoth ==
  /\ script = Free
  /\ opts = [Latency |-> Latency, Command |-> FALSE, Subdirs |-> FALSE,
             Group |-> TRUE]
  /\ InitEnv(MaxSettle, MaxWatches) /\ InitObs
  /\ InitPipelineA("off") /\ InitAccumulator(TRUE)
  /\ InitPipelineB("off") /\ InitGroup(TRUE)

Init == InitA \/ InitB

\* the watch on Root is rejected with "too many open files": log.Fatal in
\* src/watcher.go, log.Panic in part_003, before any goroutine is started
InitFatal ==
  /\ script = Free
  /\ opts \in [Latency : {Latency}, Command : {FALSE}, Subdirs : BOOLEAN,
               Group : {FALSE}]
  /\ tpc = 1 /\ tsleep = 0 /\ clock = 0 /\ rawLeft = 0
  /\ watches = {} /\ slots = 0 /\ lastEv = NoEvent
  /\ notifierClosed = FALSE
  /\ InitObs
  /\ InitAccumulator(FALSE) /\ InitGroup(FALSE)
  /\ \/ InitPipelineA("fatal") /\ InitPipelineB("off")
     \/ InitPipelineA("off") /\ InitPipelineB("fatal")

\* the notifier accepts between no watch and MaxWatches watches
InitLimit ==
  \E limit \in 0..MaxWatches :
    IF limit = 0 THEN InitFatal
    ELSE InitFromA(MaxRaw, limit) \/ InitFromB(MaxRaw, limit)

NextA ==
  \/ \E ev \in Offered : WatchdirsEvent(ev)
  \/ WatchdirsQuit
  \/ \E p \in Paths : WatchdirsClose(p)
  \/ WatchdirsReturn
  \/ \E p \in Paths : FilechanPinged(p)
  \/ \E p \in Paths : FilechanTimer(p)
  \/ \E p \in Paths : FilechanSettled(p)
  \/ \E p \in Paths : FilechanDone(p)
  \/ AccumulatorTimer
  \/ CommandReturns
  \/ AccumulatorStop
  \/ \E p \in Paths : FireFilechanTimer(p)
  \/ FireAccumulatorTimer

NextB ==
  \/ \E ev \in Offered : WatchEvent(ev)
  \/ WatchDirect
  \/ WatchQuit
  \/ SimplifyReceive
  \/ SimplifyRangeEnd
  \/ \E p \in Paths : SimplifyClose(p)
  \/ SimplifyReturn
  \/ \E p \in Paths : HandlerReceive(p)
  \/ \E p \in Paths : HandlerTimer(p)
  \/ \E p \in Paths : HandlerSettled(p)
  \/ \E p \in Paths : HandlerDone(p)
  \/ \E p \in Paths : FireHandlerTimer(p)
  \/ GroupTimer
  \/ GroupStop
  \/ FireGroupTimer
  \/ WatchdirsRangeEnd

NextEnv ==
  \/ TestSleep
  \/ TestUnwatched
  \/ Tick

Next == NextA \/ NextB \/ NextEnv

Spec == Init /\ [][Next]_vars

\* the Go scheduler runs every goroutine that can take a step, a running
\* command returns, and the test goes on to send quit
InitFair ==
  InitFromA(MaxQuitRaw, MaxWatches) \/ InitFromB(MaxQuitRaw, MaxWatches)

FairSpec == InitFair /\ [][Next]_vars /\ WF_vars(Next)

SpecLimit == InitLimit /\ [][Next]_vars

\* either pipeline started by main and never told to quit: MaxRaw raw events,
\* every goroutine that can take a step is run, a running command returns
InitRun ==
  /\ InitFromA(MaxRaw, MaxWatches) \/ InitFromB(MaxRaw, MaxWatches)
  /\ script = Free

NextRun ==
  \/ \E ev \in Offered : WatchdirsEvent(ev)
  \/ \E p \in Paths : FilechanPinged(p)
  \/ \E p \in Paths : FilechanTimer(p)
  \/ \E p \in Paths : FilechanSettled(p)
  \/ AccumulatorTimer
  \/ CommandReturns
  \/ \E p \in Paths : FireFilechanTimer(p)
  \/ FireAccumulatorTimer
  \/ \E ev \in Offered : WatchEvent(ev)
  \/ WatchDirect
  \/ SimplifyReceive
  \/ \E p \in Paths : HandlerReceive(p)
  \/ \E p \in Paths : HandlerTimer(p)
  \/ \E p \in Paths : HandlerSettled(p)
  \/ \E p \in Paths : FireHandlerTimer(p)
  \/ GroupTimer
  \/ FireGroupTimer
  \/ Tick

FairRun == InitRun /\ [][NextRun]_vars /\ WF_vars(NextRun)

\* part_000 started by main, MaxRaw raw events to come
InitOld ==
  /\ script = Free
  /\ opts \in [Latency : {Latency}, Command : BOOLEAN, Subdirs : {FALSE},
               Group : {FALSE}]
  /\ InitEnv(MaxRaw, MaxWatches) /\ InitObs
  /\ InitPipelineA("select") /\ InitAccumulator(TRUE)
  /\ InitPipelineB("off") /\ InitGroup(FALSE)

NextOld ==
  \/ \E ev \in Offered : OldWatchdirsEvent(ev)
  \/ \E p \in Paths : FilechanPinged(p)
  \/ \E p \in Paths : OldFilechanTimer(p)
  \/ \E p \in Paths : HandlerLookup(p)
  \/ \E p \in Paths : HandlerAppend(p)
  \/ \E p \in Paths : HandlerReset(p)
  \/ OldAccumulatorPrint
  \/ OldAccumulatorReset
  \/ \E p \in Paths : FireFilechanTimer(p)
  \/ FireAccumulatorTimer
  \/ Tick

SpecOld == InitOld /\ [][NextOld]_vars

\* part_003 with goroutines that run at any speed: a step may come any time
\* after it is enabled
InitSlow == InitFromB(MaxQuitRaw, MaxWatches) /\ script = Free

NextSlow == NextB \/ Tick \/ Stall

SpecSlow == InitSlow /\ [][NextSlow]_vars

\* the notifier may close watcher.Event at any moment of the run
NextClosed ==
  \/ Next
  \/ NotifierCloses
  \/ WatchdirsEventClosed
  \/ WatchEventClosed

SpecClosed == InitFair /\ [][NextClosed]_vars

NextBoth ==
  \/ \E p \in BothPaths : BothSettle(p)
  \/ AccumulatorTimer
  \/ GroupTimer
  \/ FireAccumulatorTimer
  \/ FireGroupTimer
  \/ Tick

SpecBoth == InitBoth /\ [][NextBoth]_vars

TypeOK ==
  /\ wpc \in {"off", "fatal", "select", "send", "closing", "waitdone",
             "returned"}
  /\ apc \in {"off", "select", "command", "report", "exited"}
  /\ filechans \subseteq Paths
  /\ watches \subseteq Paths \cup {Root}
  /\ slots \in 0..MaxWatches
  /\ \A i \in 1..Len(commands) :
       commands[i].status \in {"running", "done", "failed"}

\* ============================================================= properties
IdleTimer == [rem |-> -1, c |-> FALSE]

NoDup(s) == \A i, j \in 1..Len(s) : i # j => s[i] # s[j]

Last(s) == s[Len(s)]

\* a raw event is taken from watcher.Event in this step; lastEv' names it
IngestStep ==
  /\ wpc = "select" \/ bw_pc = "select"
  /\ \/ rawLeft' = rawLeft - 1
     \/ /\ script # Free /\ tpc <= Len(script) /\ tpc' = tpc + 1
        /\ script[tpc].op \in {"touch", "mkdir"}
        /\ Parent(script[tpc].path) \in watches

\* the debounce unit of p exists and has neither an armed timer nor an
\* expiry or a notification on its way
UnitIdle(p) ==
  \/ fc_pc[p] = "select" /\ fc_timer[p] = IdleTimer /\ ~fc_closed[p]
  \/ h_pc[p] = "select" /\ h_timer[p] = IdleTimer /\ ~h_closed[p]

C2_BatchWindow ==
  /\ (gapAtSettle >= 0 /\ gapAtSettle < Latency) =>
       /\ apc # "off" => sameAsPrev
       /\ g_pc # "off" => gSameAsPrev
  /\ gapAtSettle >= Latency =>
       /\ apc # "off" => ~sameAsPrev
       /\ g_pc # "off" => ~gSameAsPrev

\* C3: the pending list and every reported batch hold each path at most once.
C3_NoDuplicates ==
  /\ NoDup(filenames)
  /\ \A i \in 1..Len(stdout) : NoDup(stdout[i])

C3_Witness ==
  /\ stdout # << >>
  /\ Len(Last(stdout)) >= 1
  /\ ~NoDup(reportedArrivals)

FirstIndex(arr, x) ==
  CHOOSE i \in 1..Len(arr) : arr[i] = x /\ \A j \in 1..(i - 1) : arr[j] # x

InFirstSettleOrder(f, arr) ==
  /\ SeqToSet(f) = SeqToSet(arr)
  /\ \A i, j \in 1..Len(f) :
       i < j => FirstIndex(arr, f[i]) < FirstIndex(arr, f[j])

\* C4: the pending list, and the batch last reported, list the paths in the
\* order of each path's first settled notification of its window.
C4_FirstSettleOrder ==
  /\ InFirstSettleOrder(filenames, arrivals)
  /\ stdout # << >> => InFirstSettleOrder(Last(stdout), reportedArrivals)

C4_Witness ==
  /\ stdout # << >>
  /\ Len(Last(stdout)) >= 2
  /\ Len(reportedArrivals) > Len(Last(stdout))
  /\ reportedArrivals[1] = reportedArrivals[Len(reportedArrivals)]

\* the debounce unit of b is left alone by this step
UnitUntouched(b) ==
  /\ fc_pc'[b] = fc_pc[b] /\ fc_timer'[b] = fc_timer[b]
  /\ h_pc'[b] = h_pc[b] /\ h_timer'[b] = h_timer[b]
  /\ h_event'[b] = h_event[b]
  /\ emitCnt'[b] = emitCnt[b] /\ sinceRecv'[b] = sinceRecv[b]

\* an event on path a is taken from the notifier, or handed to a's unit
EventStepOn(a) ==
  \/ IngestStep /\ lastEv'.Name = a
  \/ wpc = "send" /\ wtarget = a /\ wpc' = "select"
  \/ bw_pc = "send" /\ bw_event.Filename = a /\ bw_pc' = "select"
  \/ s_pc = "send" /\ s_event.Filename = a /\ s_pc' = "range"

\* C5: a step that processes an event on path a leaves the debounce unit of
\* every other path b (its timer, its position, its pending notification)
\* as it was.
C5_Independence ==
  [][\A a, b \in Paths : (a # b /\ EventStepOn(a)) => UnitUntouched(b)]_vars

C5_Witness ==
  \E a, b \in Paths :
    /\ a # b
    /\ sinceRecv[a] = 0 /\ emitCnt[a] = 0
    /\ \/ fc_timer[a].rem = Latency /\ fc_timer[b].rem \in 1..(Latency - 1)
       \/ h_timer[a].rem = Latency /\ h_timer[b].rem \in 1..(Latency - 1)

BatchPaths == UNION {SeqToSet(stdout[i]) : i \in 1..Len(stdout)}
SinkPaths == {sink[i].text : i \in 1..Len(sink)}

NoTraceOf(p) ==
  /\ p \notin filechans \cup handlers \cup watches \cup is_changed
  /\ fc_pc[p] = "none" /\ h_pc[p] = "none"
  /\ fc_timer[p] = IdleTimer /\ h_timer[p] = IdleTimer
  /\ p \notin SeqToSet(filenames) \cup BatchPaths \cup SinkPaths
  /\ wtarget # p /\ bw_event.Filename # p /\ s_event.Filename # p
  /\ eventprior.Filename # p

\* C6: an excluded path never gets a debounce unit, a timer, a watch or a
\* place in the output, and taking an excluded event from the notifier
\* changes nothing in the pipeline.
C6_Exclusion ==
  /\ [](\A p \in Paths : ExcludeMatch(p) => NoTraceOf(p))
  /\ [][(IngestStep /\ ExcludeMatch(lastEv'.Name)) =>
          UNCHANGED <<watches, aVars, bVars, obsVars>>]_vars

C6_Witness ==
  /\ ExcludeMatch(lastEv.Name)
  /\ BatchPaths \cup SinkPaths # {}

RECURSIVE GroupBatches(_)
\* the sets of paths group wrote between consecutive Settled-flagged events
GroupBatches(w) ==
  IF w = << >> THEN << >>
  ELSE LET k == CHOOSE i \in 1..(Len(w) + 1) :
                  /\ i = Len(w) + 1 \/ w[i].end = "\n"
                  /\ \A j \in 1..(i - 1) : w[j].end # "\n"
       IN IF k > Len(w) THEN << >>
          ELSE << {w[j].text : j \in 1..k} >>
                 \o GroupBatches(SubSeq(w, k + 1, Len(w)))

AccumulatorBatches == [i \in 1..Len(stdout) |-> SeqToSet(stdout[i])]

BatchingQuiet ==
  /\ atimer = IdleTimer /\ gtimer = IdleTimer
  /\ filenames = << >> /\ ~haveprior

\* C7: fed the same settled notifications at the same times, group and
\* make_accumulator have produced the same sets of paths, batch by batch,
\* whenever both are at rest.
C7_GroupingEquivalence ==
  (apc = "select" /\ g_pc = "select" /\ BatchingQuiet) =>
     GroupBatches(sink) = AccumulatorBatches

\* C8: group writes an event un-flagged only while it is the buffered prior
\* event and a later event arrives, and flagged only while it is the buffered
\* prior event and the window timer has expired.
C8_SettledFlag ==
  [][(g_pc # "off" /\ opts.Group /\ sink' # sink) =>
       /\ haveprior
       /\ Last(sink').text = eventprior.Filename
       /\ IF Last(sink').end = "\n"
          THEN gtimer.c /\ ~haveprior'
          ELSE ~eventprior.Settled /\ haveprior'
                 /\ gtimer'.rem = opts.Latency]_vars

\* C9: with Latency = 0 every event watch forwards is written followed by a
\* newline, and TestTouch produces exactly the touched path and a newline.
C9_ZeroLatency ==
  (bw_pc # "off" /\ opts.Latency = 0) =>
     /\ \A i \in 1..Len(sink) : sink[i].end = "\n"
     /\ (script = TestTouch /\ returned) =>
          sink = << [text |-> "foo", end |-> "\n"] >>

ShutdownRequested ==
  \/ wpc \in {"closing", "waitdone", "returned"}
  \/ bw_pc = "closed"

\* the settled notification of p's debounce unit is received downstream
EmitStep(p) ==
  \/ fc_pc[p] = "sending" /\ fc_pc'[p] = "select"
  \/ h_pc[p] = "sending" /\ h_pc'[p] = "select"

\* C11: once the quit signal has been received, no debounce unit hands a
\* settled notification to the batching stage any more.
C11_ShutdownSilence ==
  [][ShutdownRequested => (\A p \in Paths : ~EmitStep(p))]_vars

\* C12: a debounce unit's input is closed only after the loop that reads
\* watcher.Event has stopped; the units are closed one at a time, each
\* acknowledged before the next; and the channel feeding the batching stage
\* is closed only after every unit has acknowledged and exited, so no unit is
\* left to send on it.
C12_ShutdownOrdering ==
  /\ \A p \in Paths : fc_closed[p] => wpc \in {"closing", "waitdone", "returned"}
  /\ \A p \in Paths : h_closed[p] => (bw_pc = "closed" /\ eventsClosed)
  /\ wpc = "closing" => \A p \in Paths : fc_closed[p] => fc_pc[p] = "exited"
  /\ s_pc = "closing" => \A p \in Paths : h_closed[p] => h_pc[p] = "exited"
  /\ changedClosed =>
       /\ wpc = "returned"
       /\ \A p \in filechans : fc_closed[p] /\ fc_pc[p] = "exited"
  /\ outClosed =>
       /\ bw_pc = "closed" /\ s_pc = "exited"
       /\ \A p \in handlers : h_closed[p] /\ h_pc[p] = "exited"

C12_Witness ==
  \/ changedClosed /\ Cardinality(filechans) >= 2
  \/ outClosed /\ Cardinality(handlers) >= 2

\* Watchdirs has returned and every goroutine it started has ended
Terminated ==
  \/ /\ wpc = "returned" /\ apc = "exited"
     /\ \A p \in filechans : fc_pc[p] = "exited"
  \/ /\ bw_pc = "closed" /\ returned
     /\ s_pc \in {"off", "exited"}
     /\ \A p \in handlers : h_pc[p] = "exited"
     /\ g_pc \in {"off", "exited"}

\* C13: once the quit signal is on offer, whatever the debounce units and the
\* batching stage are doing, the pipeline eventually accepts it and
\* Watchdirs returns with every goroutine ended.
C13_ShutdownTermination == QuitOffered ~> Terminated

C13_Witness ==
  /\ Terminated
  /\ Cardinality(filechans \cup handlers) >= 2
  /\ Len(stdout) + Len(sink) >= 1

\* the channel the batching stage reads has been closed
BatchInputClosed ==
  \/ apc # "off" /\ changedClosed
  \/ g_pc # "off" /\ (IF opts.Latency # 0 THEN outClosed ELSE eventsClosed)

\* C14: once its input channel is closed, the batching stage reports or
\* writes nothing more and starts no command: a pending partial batch is
\* dropped.
C14_DiscardOnShutdown ==
  [][BatchInputClosed =>
       /\ stdout' = stdout
       /\ sink' = sink
       /\ (apc' = "command" => apc = "command")]_vars

\* C15: while run_command has not returned, a debounce unit that has a
\* settled notification to send can hand it to the accumulator, and a unit
\* the Watchdirs loop is pinging can take the ping, so that the loop goes
\* back to watcher.Event.
C15_HungCommand ==
  apc = "command" =>
    /\ \A p \in Paths : fc_pc[p] = "sending" => ENABLED FilechanSettled(p)
    /\ wpc = "send" => ENABLED FilechanPinged(wtarget)

\* C16: with a command configured, the invocations are, one for one and in
\* order, the reported batches, each with the batch's paths in batch order;
\* only the newest can still be running, and it is running exactly while the
\* accumulator is inside report(): a failed one is neither run again nor
\* stops the accumulator.  Without a command nothing is invoked.
C16_CommandDispatch ==
  /\ ~opts.Command => commands = << >>
  /\ opts.Command =>
       /\ Len(commands) = Len(stdout)
       /\ \A i \in 1..Len(commands) : commands[i].args = stdout[i]
       /\ \A i \in 1..(Len(commands) - 1) : commands[i].status # "running"
       /\ apc = "command" <=>
            (commands # << >> /\ Last(commands).status = "running")

C16_Witness ==
  /\ Len(commands) >= 2
  /\ commands[1].status = "failed"
  /\ Len(commands[1].args) >= 1
  /\ Len(Last(commands).args) >= 1

\* the pipeline was ended by log.Fatal or log.Panic
Fatal == wpc = "fatal" \/ bw_pc = "fatal"

\* this step calls watcher.Watch on a directory the notifier has no slot for
WatchRejected ==
  /\ IngestStep
  /\ slots = 0
  /\ lastEv'.Name \notin watches
  /\ opts.Subdirs /\ isdir(lastEv'.Name) /\ ~ExcludeMatch(lastEv'.Name)
  /\ \/ wpc = "select" /\ (IsCreate(lastEv') \/ IsModify(lastEv'))
     \/ bw_pc = "select" /\ IsCreate(lastEv')

\* C17: a watch the notifier rejects for lack of resources, on an initial
\* directory or on a newly created subdirectory, ends the pipeline.
C17_WatchFailureFatal ==
  /\ [](Root \notin watches => Fatal)
  /\ [][WatchRejected => Fatal']_vars

\* group has nothing buffered and no window open, or Watchdirs has returned
GroupAtRest ==
  \/ returned
  \/ g_pc = "select" /\ ~haveprior /\ gtimer = IdleTimer

\* C18: in grouping mode every path is written followed by a tab or, for the
\* last path of its batch, a newline; whenever group is at rest or the run is
\* over, what was written ends with a newline.
C18_GroupFraming ==
  (bw_pc # "off" /\ opts.Group) =>
     /\ \A i \in 1..Len(sink) : sink[i].end \in {"\t", "\n"}
     /\ (GroupAtRest /\ sink # << >>) => Last(sink).end = "\n"

\* the kind set of ev holds neither Create nor Modify
OtherKindsOnly(ev) == ev.Kinds \cap {"Create", "Modify"} = {}

\* C19 as stated: in both pipelines an event that is neither Create nor
\* Modify changes nothing beyond the notifier: no unit, no timer, no report.
C19_OnlyCreateModify ==
  [][(IngestStep /\ OtherKindsOnly(lastEv')) =>
       UNCHANGED <<watches, aVars, bVars, obsVars>>]_vars

\* C19 amended: Watchdirs of src/watcher.go drops an event that is neither
\* Create nor Modify, leaving units, timers, watches and output untouched;
\* watch of part_003 has no such test and forwards it, with its kinds, unless
\* the path is excluded.
C19_KindFilter ==
  [][(IngestStep /\ OtherKindsOnly(lastEv')) =>
       IF wpc = "select"
       THEN UNCHANGED <<watches, aVars, bVars, obsVars>>
       ELSE ~ExcludeMatch(lastEv'.Name) =>
              /\ bw_pc' = "send"
              /\ bw_event' = Event(lastEv'.Name, lastEv'.Kinds)]_vars

C19_Witness ==
  /\ wpc # "off"
  /\ OtherKindsOnly(lastEv) /\ lastEv.Name \in Paths
  /\ ~ExcludeMatch(lastEv.Name)
  /\ lastEv.Name \notin filechans
  /\ filechans # {}

\* C20: while the loop runs, the watch set changes only by adding p in the
\* step that takes a non-excluded event on p whose kinds include Create, with
\* p a directory and Subdirs enabled, before quit was received; every other
\* step leaves the watch set as it is. (watcher.Close() at return releases the
\* notifier as a whole and is not a change of the set.)
C20_WatchFrame ==
  [][watches' # watches =>
       /\ IngestStep /\ ~ShutdownRequested
       /\ opts.Subdirs
       /\ IsCreate(lastEv') /\ isdir(lastEv'.Name)
       /\ ~ExcludeMatch(lastEv'.Name)
       /\ watches' = watches \cup {lastEv'.Name}]_vars

\* the src/watcher.go pipeline, driven by TestWatchdirs, reports its first
\* batch in this step
FirstReport ==
  /\ wpc # "off" /\ script = TestWatchdirs
  /\ stdout = << >> /\ stdout' # << >>

\* foo and bar touched at 0, bar again at latency/2, nothing else so far: at
\* most one batch is reported, and it is [foo, bar]
OneBatchFooBar ==
  (wpc # "off" /\ script = TestWatchdirs /\ tpc <= 6) =>
     /\ stdout \in {<< >>, << <<"foo", "bar">> >>}
     /\ (tpc = 6 /\ tsleep = 0) => stdout # << >>

\* C21 as stated: the batch [foo, bar] is reported one latency after the last
\* raw event, at latency/2 + latency.
C21_ScenarioTiming ==
  /\ []OneBatchFooBar
  /\ [][FirstReport => clock = (Latency \div 2) + Latency]_vars

\* C21 amended: the batch [foo, bar] is reported two latencies after the last
\* raw event, at latency/2 + 2 * latency: bar settles one latency after its
\* last touch and the batch window closes one latency after that.
C21_ScenarioTwoLatencies ==
  /\ []OneBatchFooBar
  /\ [][FirstReport => clock = (Latency \div 2) + 2 * Latency]_vars

C21_Witness ==
  /\ wpc # "off" /\ script = TestWatchdirs
  /\ stdout = << <<"foo", "bar">> >>
  /\ clock = (Latency \div 2) + 2 * Latency
  /\ sinceSettle = Latency

\* the loop that reads watcher.Event leaves its select in this step
LoopLeavesSelect ==
  \/ wpc = "select" /\ wpc' # "select"
  \/ bw_pc = "select" /\ bw_pc' # "select"

\* C22: once watcher.Event is closed no event is taken from it; unless quit
\* is on offer as well, the loop leaves its select only into the fatal end
\* of the process; and after that end nothing of the pipeline changes: no
\* unit, timer, notification, batch or output.
C22_NotifierClosedFatal ==
  /\ [][notifierClosed => ~IngestStep]_vars
  /\ [][(notifierClosed /\ ~QuitOffered /\ LoopLeavesSelect) => Fatal']_vars
  /\ [][Fatal => UNCHANGED <<watches, aVars, bVars, emitCnt, orderObs>>]_vars

C22_Witness ==
  /\ notifierClosed /\ Fatal
  /\ \/ wpc = "fatal" /\ filenames # << >>
     \/ bw_pc = "fatal" /\ haveprior

\* the map of units holds exactly the paths whose goroutine was started
UnitsAreMapped ==
  \A p \in Paths : /\ p \in filechans <=> fc_pc[p] # "none"
                   /\ p \in handlers <=> h_pc[p] # "none"

\* a goroutine with a fresh timer is started for p in this step (and not an
\* existing one pinged, or back from sending its notification)
UnitStarted(p) ==
  \/ /\ fc_pc'[p] = "select" /\ fc_timer'[p] = NewTimer(opts.Latency)
     /\ <<fc_pc[p], fc_timer[p]>> # <<fc_pc'[p], fc_timer'[p]>>
     /\ fc_pc[p] # "sending"
     /\ ~(wpc = "send" /\ wtarget = p /\ wpc' = "select")
  \/ /\ h_pc'[p] = "select" /\ h_timer'[p] = NewTimer(opts.Latency)
     /\ <<h_pc[p], h_timer[p]>> # <<h_pc'[p], h_timer'[p]>>
     /\ h_pc[p] # "sending"
     /\ ~(s_pc = "send" /\ s_event.Filename = p /\ s_pc' = "range")

\* the dispatching loop takes an event on p in this step
DispatchStep(p) ==
  \/ IngestStep /\ wpc = "select" /\ lastEv'.Name = p
  \/ bw_pc = "send" /\ s_pc = "range" /\ s_pc' = "send" /\ bw_event.Filename = p

\* C23: there is one goroutine per mapped path and none besides; a unit is
\* started, and the map written, only by the dispatching loop on an event for
\* a path not yet in the map; an event for a mapped path leaves the map and
\* the units alone and is handed to the unit the path already has.
C23_OneUnitPerPath ==
  /\ []UnitsAreMapped
  /\ [][\A p \in Paths :
          /\ UnitStarted(p) =>
               DispatchStep(p) /\ p \notin filechans \cup handlers
          /\ (p \in filechans' \cup handlers' /\ p \notin filechans \cup handlers)
               => DispatchStep(p) /\ UnitStarted(p)
          /\ (p \in filechans /\ DispatchStep(p) /\ wpc' # "select") =>
               /\ wpc' = "send" /\ wtarget' = p
               /\ UNCHANGED <<filechans, fcVars>>
          /\ (p \in handlers /\ DispatchStep(p)) =>
               /\ s_event'.Filename = p
               /\ UNCHANGED <<handlers, hVars>>]_vars
  /\ [][filechans \subseteq filechans' /\ handlers \subseteq handlers']_vars

C23_Witness ==
  \/ /\ wpc = "send" /\ wtarget \in filechans
     /\ fc_timer[wtarget].rem \in 0..(Latency - 1)
     /\ Cardinality(filechans) >= 2
  \/ /\ s_pc = "send" /\ s_event.Filename \in handlers
     /\ h_timer[s_event.Filename].rem \in 0..(Latency - 1)
     /\ Cardinality(handlers) >= 2

\* the unit of p takes an event from its input channel in this step
HandlerReceiveStep(p) ==
  s_pc = "send" /\ s_event.Filename = p /\ s_pc' = "range"

\* the event that goes downstream in this step
Emitted ==
  IF opts.Group THEN eventprior' ELSE [ZeroEvent EXCEPT !.Filename = Last(sink').text]

\* C24: the event variable of a unit changes only by receiving, and then to
\* the event received; a unit never has a timer expiry in hand before it has
\* received an event; and what it emits is the event it received last (in the
\* output without grouping only the path can be told).
C24_LastEventWins ==
  /\ [](\A p \in Paths : h_pc[p] = "sending" =>
          h_event[p] # ZeroEvent /\ h_event[p].Filename = p)
  /\ [][\A p \in Paths :
          /\ HandlerReceiveStep(p) => h_event'[p] = s_event
          /\ h_event'[p] # h_event[p] => HandlerReceiveStep(p)
          /\ (h_pc[p] = "sending" /\ h_pc'[p] = "select") =>
               IF opts.Group THEN Emitted = h_event[p]
               ELSE Emitted.Filename = h_event[p].Filename]_vars

\* report() and reset_accum() of one timer case are both done in this step
FlushDone ==
  \/ apc = "select" /\ stdout' # stdout /\ apc' = "select"
  \/ apc = "command" /\ apc' = "select"

\* C25: between flushes the map and the list hold exactly the paths of the
\* notifications received since the last flush; a report prints exactly
\* that list; when the flush is done both are empty; and no notification is
\* processed while a flush is under way.  So a path of one batch is in a
\* later batch only if it settled again in between.
C25_ResetAfterFlush ==
  /\ [](apc \in {"select", "command"} =>
          /\ is_changed = SeqToSet(filenames)
          /\ is_changed = SeqToSet(arrivals))
  /\ [][stdout' # stdout => stdout' = Append(stdout, filenames)]_vars
  /\ [][FlushDone => (filenames' = << >> /\ is_changed' = {})]_vars
  /\ [][(apc = "command" /\ apc' = "command") =>
          UNCHANGED <<filenames, is_changed>>]_vars

C25_Witness ==
  /\ Len(stdout) >= 2
  /\ SeqToSet(stdout[1]) \cap SeqToSet(stdout[2]) # {}
  /\ filenames = << >>

\* the goroutines that are reading or writing is_changed and filenames, or
\* are between two of their accesses to them
Accessors ==
  {p \in Paths : fc_pc[p] \in {"lookup", "append"}}
    \cup (IF apc \in {"report", "command"} THEN {"make_accumulator"} ELSE {})

\* C26: at no time are two goroutines at work on is_changed and filenames.
C26_SingleGoroutine == Cardinality(Accessors) <= 1

\* C27: no reported batch is empty, and no command is run without a path.
C27_NoEmptyBatch ==
  /\ \A i \in 1..Len(stdout) : stdout[i] # << >>
  /\ \A i \in 1..Len(commands) : commands[i].args # << >>

\* the number of events group has received so far (side-by-side harness)
GroupReceived == MaxSettle - rawLeft

\* group writes the buffered event from its timer case in this step
GroupTimerStep ==
  g_pc = "select" /\ gtimer.c /\ ~gtimer'.c /\ sink' # sink

\* C28: what group has written, together with the event it still buffers,
\* is one event for each event it received; its timer case writes only with
\* a prior event buffered, and writes that event, flagged.
C28_GroupExactlyOnce ==
  /\ [](g_pc = "select" =>
          Len(sink) + (IF haveprior THEN 1 ELSE 0) = GroupReceived)
  /\ [][GroupTimerStep =>
          /\ haveprior
          /\ Last(sink') = [text |-> eventprior.Filename, end |-> "\n"]]_vars

\* an event for p is on its way to p's debounce unit, or the unit has
\* received one and not yet handed on a settled notification since
UnitOwes(p) ==
  \/ wpc = "send" /\ wtarget = p
  \/ bw_pc = "send" /\ bw_event.Filename = p /\ opts.Latency # 0
  \/ s_pc = "send" /\ s_event.Filename = p
  \/ sinceRecv[p] >= 0 /\ emitCnt[p] = 0

\* the batching stage holds a notification it has not yet written
BatchOwes == filenames # << >> \/ haveprior

\* something is owed: by a unit its notification, or by the batching stage
\* its output
Owed == (\E p \in Paths : UnitOwes(p)) \/ BatchOwes

\* C29: with no quit sent, whenever a debounce unit has an event to settle or
\* the batching stage holds a notification, the pipeline comes to a state
\* where every unit has handed on its settled notification and the batching
\* stage has written all it held.
C29_NoLostChange == Owed ~> ~Owed

C29_Witness ==
  \E p \in Paths :
    /\ emitCnt[p] >= 1 /\ ~UnitOwes(p) /\ ~BatchOwes
    /\ p \in BatchPaths \cup SinkPaths
    /\ rawLeft = 0

\* C30: make_accumulator reports a batch that holds a path, and group writes
\* a buffered event flagged, only when latency has passed since the batching
\* stage received its last settled notification.
C30_NoEarlyBoundary ==
  [][/\ (apc = "select" /\ stdout' # stdout /\ filenames # << >>) =>
          sinceSettle >= Latency
     /\ (GroupTimerStep /\ haveprior) => sinceSettle >= Latency]_vars
====
